---- MODULE Spec2Model ----
(***************************************************************************)
(* A model of the role-aware analytics dashboard (package `dashboard`).    *)
(*                                                                         *)
(* The module holds ten state machines over disjoint groups of             *)
(* variables; each specification moves one group and leaves the others at  *)
(* their initial value:                                                    *)
(*                                                                         *)
(*   SpecLoad  DataRepository.load_uncached on a provider's output         *)
(*             (capping, date normalization).                              *)
(*   SpecData  concurrent get_data calls through CacheFacade.memoize,      *)
(*             the keys bootstrap_data and build_layout use, the clock.    *)
(*   SpecClaims  JWTClaims validation and the defaults (role aliases).     *)
(*   SpecAuth  one HTTP request through the before_request guard and the   *)
(*             handler behind it (health, layout, bootstrap_data).         *)
(*   SpecLayout  ui.build_layout for a claims object and a dataset.        *)
(*   SpecFilter  callbacks._filter_df on a frame and a filter.             *)
(*   SpecMoney  utils.fmt_money.                                           *)
(*   SpecViz   callbacks.update_viz on the data store.                     *)
(*   SpecProv  the repository's provider selection and provider.load().    *)
(*   SpecEnv   config._EnvLoader and Settings over the layered .env files. *)
(***************************************************************************)
EXTENDS Integers, Sequences, FiniteSets, TLC

(***************************************************************************)
(* Bounds of the model.                                                    *)
(***************************************************************************)
\* longest provider output (rows) that is enumerated
MaxProviderRows == 3
\* settings.max_rows ranges over 1..MaxCap
MaxCap == 2
\* request contexts that may call get_data concurrently
NumRequests == 2
\* the clock runs from 0 to MaxTime seconds
MaxTime == 3
\* seconds in a calendar day (scaled down)
DayLength == 2
\* settings.cache_timeout_seconds (scaled down; the default is one day)
CacheTimeout == 2
\* load_uncached invocations that are followed
MaxLoads == 2
\* longest dataset (rows) handed to bootstrap_data
MaxTeamRows == 2

VARIABLES
    \* ---- SpecLoad ----
    providerOut,    \* what self.provider.load() returns (a sequence of rows)
    max_rows,       \* settings.max_rows
    sampleOrder,    \* the positions df.sample(.., random_state=1) draws, in order
    loadResults,    \* the results of the load_uncached calls made so far (newest last)
    \* ---- SpecData ----
    now,            \* time.time() in whole seconds; the calendar day is now \div DayLength
    cache_backend,  \* what CacheFacade wraps: "none", "serializing" or "in_memory"
    timeout_seconds,\* CacheFacade.timeout_seconds (settings.cache_timeout_seconds)
    cache,          \* the backend's store: a set of entries, at most one per slot
    calls,          \* per request context: the get_data call it is making
    loads,          \* number of load_uncached invocations so far
    mutated,        \* <<object, request>>: the request has mutated the object
    \* ---- SpecClaims ----
    payload,        \* a decoded token payload handed to JWTClaims.model_validate
    produced,       \* what the claims normalizer produced from it, or from the defaults
    \* ---- SpecAuth ----
    settings,       \* disable_auth, jwt_issuer, jwt_audience
    request,        \* the HTTP request being served: path and Authorization header
    g,              \* the guard's outcome: status and flask.g.claims
    response,       \* what the view function behind the guard did
    \* ---- SpecLayout ----
    layoutClaims,   \* what current_claims() returns to build_layout
    layoutData,     \* what get_data() returns to build_layout
    layout,         \* the component tree build_layout returned (the parts that vary)
    \* ---- SpecFilter ----
    filterDf,       \* the DataFrame handed to _filter_df
    filterSpec,     \* the eight filter arguments of the call
    filterOut,      \* what _filter_df(filterDf, spec) did
    filterAgain,    \* what _filter_df did on the rows of filterOut, same spec
    \* ---- SpecMoney ----
    moneyArg,       \* the argument of fmt_money: the number m * 1000^e
    moneyText,      \* the text fmt_money returned: a whole number and a unit suffix
    \* ---- SpecViz ----
    data_json,      \* the data-store contents handed to update_viz
    vizToday,       \* dt.date.today() as a day number
    vizArgs,        \* the filter inputs of the update_viz call
    vizOut          \* what update_viz returned, or that it raised

VARIABLES
    cfgInput,       \* how the repository is constructed: the configured values
    repo,           \* the DataRepository: its settings and its provider
    io,             \* the remote operations issued so far, each with its timeout
    provLoad        \* the provider.load() call in progress and its outcome

VARIABLES
    procEnv,        \* the environment the process was started with
    files,          \* the .env files of the project root: name -> content
    os_environ,     \* os.environ: (name, value) pairs in insertion order
    envSettings     \* the Settings object built from it

loadVars == <<providerOut, max_rows, sampleOrder, loadResults>>
dataVars == <<now, cache_backend, timeout_seconds, cache, calls, loads, mutated>>
claimVars == <<payload, produced>>
authVars == <<settings, request, g, response>>
layoutVars == <<layoutClaims, layoutData, layout>>
coreVars == <<loadVars, dataVars, claimVars, authVars>>
filterVars == <<filterDf, filterSpec, filterOut, filterAgain>>
moneyVars == <<moneyArg, moneyText>>
vizVars == <<data_json, vizToday, vizArgs, vizOut>>
provVars == <<cfgInput, repo, io, provLoad>>
envVars == <<procEnv, files, os_environ, envSettings>>
laterVars == <<layoutVars, filterVars, moneyVars, vizVars, provVars, envVars>>

(***************************************************************************)
(* Rows.  A row carries the schema fields the repository reads or writes:  *)
(* date (a calendar day and a time-of-day part), team, revenue, cost and   *)
(* profit.  An optional value is a sequence of length at most one: <<>>    *)
(* is "no value" (a missing column, None), <<v>> is the value v.           *)
(***************************************************************************)
None == <<>>
Some(v) == <<v>>

LoadDates == {[day |-> 1, tod |-> 0], [day |-> 1, tod |-> 1]}
LoadRevenues == {3}
LoadCosts == {1}

\* The profit column as a provider may deliver it: missing, wrong or right.
ProviderProfits(revenue, cost) == {None, Some(0), Some(revenue - cost)}

ProviderRows ==
    { [date |-> d, team |-> "Data", revenue |-> r, cost |-> c, profit |-> p] :
        <<d, r, c, p>> \in
            { q \in LoadDates \X LoadRevenues \X LoadCosts \X {None, Some(0), Some(2)} :
                q[4] \in ProviderProfits(q[2], q[3]) } }

SeqsUpTo(S, n) == UNION { [1..m -> S] : m \in 0..n }

SampleOrders(n) == { f \in [1..n -> 1..n] : \A i, j \in 1..n : i # j => f[i] # f[j] }

(***************************************************************************)
(* DataRepository.load_uncached                                            *)
(***************************************************************************)
\* pd.to_datetime(df["date"]).dt.date : the time-of-day part is dropped
NormalizeDate(row) == [row EXCEPT !.date = [day |-> row.date.day, tod |-> 0]]

\* df.sample(n, random_state=1).reset_index(drop=True): n rows at distinct
\* positions; the positions are fixed by the seed and the length of df.
Sample(df, n, order) == [j \in 1..n |-> df[order[j]]]

CapAtPlusOne(df, cap, order) ==
    IF Len(df) > cap + 1 THEN Sample(df, cap + 1, order) ELSE df

Cap(df, cap, order) ==
    IF Len(df) > cap THEN Sample(df, cap, order) ELSE df

load_uncached(df, cap, order) ==
    LET capped == Cap(df, cap, order)
    IN  [i \in 1..Len(capped) |-> NormalizeDate(capped[i])]

InitLoad ==
    /\ providerOut \in SeqsUpTo(ProviderRows, MaxProviderRows)
    /\ max_rows \in 1..MaxCap
    /\ sampleOrder \in SampleOrders(Len(providerOut))
    /\ loadResults = <<>>

\* One call of load_uncached on the provider's output; the last two results
\* are kept.
LoadUncachedCall ==
    /\ Len(loadResults) < 2
    /\ loadResults' = Append(loadResults, load_uncached(providerOut, max_rows, sampleOrder))
    /\ UNCHANGED <<providerOut, max_rows, sampleOrder, dataVars, claimVars, authVars, laterVars>>

LoadIdle ==
    /\ providerOut = <<>>
    /\ max_rows = 1
    /\ sampleOrder = <<>>
    /\ loadResults = <<>>

(***************************************************************************)
(* The clock, the day key and the forced key                               *)
(***************************************************************************)
Requests == 1..NumRequests

TodayKeyIsMonth(t) == <<t \div (2 * DayLength)>>

\* utils.today_key: dt.date.today().isoformat().  A key string is modelled
\* as a sequence of numbers: <<d>> is the ISO date of day d, <<d, s>> is
\* that date followed by "__" and the epoch second s, <<>> is "".
today_key(t) == <<t \div DayLength>>

\* callbacks.bootstrap_data, lines 81-83: None unless the button was clicked
force_key_of(n_clicks, t) ==
    IF n_clicks # None /\ n_clicks[1] # 0 /\ n_clicks[1] > 0
    THEN Some(today_key(t) \o <<t>>)
    ELSE None

\* get_data, line 55: force_key if force_key else today_key()
get_data_key(force_key, t) ==
    IF force_key # None /\ force_key[1] # <<>> THEN force_key[1] ELSE today_key(t)

(***************************************************************************)
(* Datasets as objects.  A dataset value is the snapshot the ver-th        *)
(* load_uncached invocation produced; obj is the identity of the Python    *)
(* object holding it.  Mutating an object is recorded in `mutated`.        *)
(***************************************************************************)
Obj(kind, n) == [kind |-> kind, n |-> n]
NoData == [ver |-> 0, obj |-> None]
Data(ver, o) == [ver |-> ver, obj |-> Some(o)]

IdleCall ==
    [pc |-> "idle", key |-> <<>>, refresh |-> FALSE, rv |-> NoData, result |-> NoData,
     hadEntry |-> FALSE, loaded |-> FALSE]

(***************************************************************************)
(* CacheFacade.memoize and DataRepository.load_cached                      *)
(***************************************************************************)
\* load_cached memoizes _inner(_k): the cache slot is decided by the
\* function and its argument, the key.
MemoSlotIgnoresKey(key) == <<>>

memo_slot(key) == key

\* The backend keeps 0 as the expiry of an entry stored with timeout 0:
\* such an entry never expires.
Unexpired(e, t) == e.expires = 0 \/ t < e.expires

\* cache.get(slot): the entry, if one is stored and has not expired
ValidEntries(slot, t) == { e \in cache : e.slot = slot /\ Unexpired(e, t) }

CacheSetDropsOtherKeys(slot, key, value, t) ==
    { [slot |-> slot, key |-> key, ver |-> value.ver,
       obj |-> IF cache_backend = "in_memory" THEN value.obj ELSE None,
       expires |-> IF timeout_seconds = 0 THEN 0 ELSE t + timeout_seconds] }

\* cache.set(slot, value, timeout)
cache_set(slot, key, value, t) ==
    { e \in cache : e.slot # slot } \cup
    { [slot |-> slot, key |-> key, ver |-> value.ver,
       obj |-> IF cache_backend = "in_memory" THEN value.obj ELSE None,
       expires |-> IF timeout_seconds = 0 THEN 0 ELSE t + timeout_seconds] }

\* what a hit hands to the caller: the stored object itself, or a freshly
\* deserialized one
cache_value(e, r) ==
    IF e.obj # None THEN [ver |-> e.ver, obj |-> e.obj] ELSE Data(e.ver, Obj("thaw", r))

\* An entry stored for this very key that has not expired (the claim's
\* notion of "cached", independent of how the slot is computed).
EntryStoredFor(key, t) == \E e \in cache : e.key = key /\ Unexpired(e, t)

(***************************************************************************)
(* get_data: the steps of one call                                         *)
(***************************************************************************)
GetDataNoCopy(value, r) == value

\* get_data, line 57: df.copy()
get_data_return(value, r) == Data(value.ver, Obj("copy", r))

InitData ==
    /\ now = 0
    /\ cache_backend \in {"none", "serializing", "in_memory"}
    /\ timeout_seconds \in {0, CacheTimeout}
    /\ cache = {}
    /\ calls = [r \in Requests |-> IdleCall]
    /\ loads = 0
    /\ mutated = {}

MemoizeAlwaysWraps(backend) == FALSE

\* CacheFacade.memoize, line 19: `if self.cache is None: return fn`
memoize_is_noop(backend) == backend = "none"

\* A caller enters get_data(force_key); CacheFacade.memoize returns the
\* loader itself when no cache is configured.
GetDataBegin(r, force_key, refresh) ==
    /\ calls[r].pc = "idle"
    /\ calls' = [calls EXCEPT ![r] =
          [IdleCall EXCEPT !.pc = IF memoize_is_noop(cache_backend) THEN "load" ELSE "lookup",
                           !.key = get_data_key(force_key, now),
                           !.refresh = refresh]]
    /\ UNCHANGED <<now, cache_backend, timeout_seconds, cache, loads, mutated, loadVars, claimVars, authVars, laterVars>>

\* ui.build_layout, line 40: get_data()
BuildLayoutCall(r) == GetDataBegin(r, None, FALSE)

\* callbacks.bootstrap_data, lines 81-85
BootstrapDataCall(r) ==
    \E n_clicks \in {None, Some(0), Some(1)} :
        GetDataBegin(r, force_key_of(n_clicks, now), force_key_of(n_clicks, now) # None)

LookupUnderLock(r) ==
    /\ calls[r].pc = "lookup"
    /\ \A q \in Requests \ {r} : calls[q].pc \notin {"load", "store"}
    /\ LET hits == ValidEntries(memo_slot(calls[r].key), now)
           had == EntryStoredFor(calls[r].key, now)
       IN  IF hits # {}
           THEN \E e \in hits :
                  calls' = [calls EXCEPT ![r].pc = "done",
                                         ![r].result = get_data_return(cache_value(e, r), r),
                                         ![r].hadEntry = had]
           ELSE calls' = [calls EXCEPT ![r].pc = "load", ![r].hadEntry = had]
    /\ UNCHANGED <<now, cache_backend, timeout_seconds, cache, loads, mutated, loadVars, claimVars, authVars, laterVars>>

\* The memoized wrapper looks the slot up; on a hit load_cached returns the
\* cached value and get_data returns its copy.
Lookup(r) ==
    /\ calls[r].pc = "lookup"
    /\ LET hits == ValidEntries(memo_slot(calls[r].key), now)
           had == EntryStoredFor(calls[r].key, now)
       IN  IF hits # {}
           THEN \E e \in hits :
                  calls' = [calls EXCEPT ![r].pc = "done",
                                         ![r].result = get_data_return(cache_value(e, r), r),
                                         ![r].hadEntry = had]
           ELSE calls' = [calls EXCEPT ![r].pc = "load", ![r].hadEntry = had]
    /\ UNCHANGED <<now, cache_backend, timeout_seconds, cache, loads, mutated, loadVars, claimVars, authVars, laterVars>>

\* load_uncached runs and the provider returns a dataset; without a cache
\* get_data returns its copy at once ...
LoadOk(r) ==
    /\ calls[r].pc = "load"
    /\ loads < MaxLoads
    /\ loads' = loads + 1
    /\ LET value == Data(loads + 1, Obj("load", loads + 1))
       IN  calls' = [calls EXCEPT
                ![r].pc = IF memoize_is_noop(cache_backend) THEN "done" ELSE "store",
                ![r].rv = IF memoize_is_noop(cache_backend) THEN NoData ELSE value,
                ![r].result = IF memoize_is_noop(cache_backend)
                              THEN get_data_return(value, r) ELSE NoData,
                ![r].loaded = TRUE]
    /\ UNCHANGED <<now, cache_backend, timeout_seconds, cache, mutated, loadVars, claimVars, authVars, laterVars>>

LoadFailsCachesFailure(r) ==
    /\ calls[r].pc = "load"
    /\ loads < MaxLoads
    /\ loads' = loads + 1
    /\ calls' = [calls EXCEPT ![r].pc = "failed", ![r].loaded = TRUE]
    /\ cache' = cache_set(memo_slot(calls[r].key), calls[r].key, NoData, now)
    /\ UNCHANGED <<now, cache_backend, timeout_seconds, mutated, loadVars, claimVars, authVars, laterVars>>

\* ... or the provider raises (raise_for_status, a failed query): the
\* exception leaves the memoized wrapper and get_data
LoadFails(r) ==
    /\ calls[r].pc = "load"
    /\ loads < MaxLoads
    /\ loads' = loads + 1
    /\ calls' = [calls EXCEPT ![r].pc = "failed", ![r].loaded = TRUE]
    /\ UNCHANGED <<now, cache_backend, timeout_seconds, cache, mutated, loadVars, claimVars, authVars, laterVars>>

\* The memoized wrapper stores the value it computed and returns it;
\* get_data returns its copy.
Store(r) ==
    /\ calls[r].pc = "store"
    /\ cache' = cache_set(memo_slot(calls[r].key), calls[r].key, calls[r].rv, now)
    /\ calls' = [calls EXCEPT ![r].pc = "done", ![r].rv = NoData,
                              ![r].result = get_data_return(calls[r].rv, r)]
    /\ UNCHANGED <<now, cache_backend, timeout_seconds, loads, mutated, loadVars, claimVars, authVars, laterVars>>

\* the caller changes the dataset it was given
Mutate(r) ==
    /\ calls[r].pc = "done"
    /\ mutated' = mutated \cup {<<calls[r].result.obj[1], r>>}
    /\ UNCHANGED <<now, cache_backend, timeout_seconds, cache, calls, loads, loadVars, claimVars, authVars, laterVars>>

\* the request ends; the objects only it could reach are gone
Finish(r) ==
    /\ calls[r].pc \in {"done", "failed"}
    /\ calls' = [calls EXCEPT ![r] = IdleCall]
    /\ mutated' = { m \in mutated : ~(m[1].kind \in {"copy", "thaw"} /\ m[1].n = r) }
    /\ UNCHANGED <<now, cache_backend, timeout_seconds, cache, loads, loadVars, claimVars, authVars, laterVars>>

\* A second passes.  An entry whose time has come is never returned again
\* (ValidEntries), so it is dropped from the store here.
Tick ==
    /\ now < MaxTime
    /\ now' = now + 1
    /\ cache' = { e \in cache : Unexpired(e, now + 1) }
    /\ UNCHANGED <<cache_backend, timeout_seconds, calls, loads, mutated, loadVars, claimVars, authVars, laterVars>>

DataIdle ==
    /\ now = 0
    /\ cache_backend = "none"
    /\ timeout_seconds = CacheTimeout
    /\ cache = {}
    /\ calls = [r \in Requests |-> IdleCall]
    /\ loads = 0
    /\ mutated = {}

NextData ==
    \/ \E r \in Requests : BuildLayoutCall(r)
    \/ \E r \in Requests : BootstrapDataCall(r)
    \/ \E r \in Requests : Lookup(r)
    \/ \E r \in Requests : LoadOk(r)
    \/ \E r \in Requests : LoadFails(r)
    \/ \E r \in Requests : Store(r)
    \/ \E r \in Requests : Mutate(r)
    \/ \E r \in Requests : Finish(r)
    \/ Tick

(***************************************************************************)
(* Claims.  A JSON value of a token payload or of a callback state is a    *)
(* record [kind, s]: kind "missing" (no such key), "null", "str" (the      *)
(* string s) or "int" (some non-string value).                             *)
(***************************************************************************)
Missing == [kind |-> "missing", s |-> ""]
Null == [kind |-> "null", s |-> ""]
Str(x) == [kind |-> "str", s |-> x]
NonStr == [kind |-> "int", s |-> ""]

CanonicalRoles == {"CIO", "Architect", "Developer"}

\* JWTClaims.normalize_role: the alias table and the Developer default
RoleMapDomain ==
    {"CIO", "ChiefInformationOfficer", "Architect", "EnterpriseArchitect",
     "SystemArchitect", "SolutionArchitect", "Developer", "Engineer"}

role_map(role) ==
    CASE role \in {"CIO", "ChiefInformationOfficer"} -> "CIO"
      [] role \in {"Architect", "EnterpriseArchitect", "SystemArchitect", "SolutionArchitect"}
            -> "Architect"
      [] role \in {"Developer", "Engineer"} -> "Developer"

NormalizeRoleKeepsUnknown(v) ==
    LET role == IF v.kind = "str" THEN (IF v.s = "" THEN "Developer" ELSE v.s) ELSE "Developer"
    IN  IF role \in RoleMapDomain THEN role_map(role) ELSE role

normalize_role(v) ==
    LET role == IF v.kind = "str" THEN (IF v.s = "" THEN "Developer" ELSE v.s) ELSE "Developer"
    IN  IF role \in RoleMapDomain THEN role_map(role) ELSE "Developer"

NoClaims == [sub |-> "", name |-> None, role |-> "", team |-> None]

\* JWTClaims.model_validate(decoded).model_dump(): sub must be a string and
\* team a string or null; the role validator does not run on a missing
\* role, whose default is "Developer".  Returns [ok, claims].
model_validate(pl) ==
    IF pl.sub.kind # "str" \/ pl.team.kind = "int"
    THEN [ok |-> FALSE, claims |-> NoClaims]
    ELSE [ok |-> TRUE,
          claims |-> [sub |-> pl.sub.s,
                      name |-> None,
                      role |-> IF pl.role.kind = "missing" THEN "Developer"
                               ELSE normalize_role(pl.role),
                      team |-> IF pl.team.kind = "str" THEN Some(pl.team.s) ELSE None]]

\* AuthService.default_claims
default_claims ==
    model_validate([sub |-> Str("devuser@example.com"), role |-> Str("Developer"),
                    team |-> Str("Platform")]).claims

RawRoles ==
    {Missing, Null, NonStr, Str(""), Str("cio"), Str("Admin")} \cup { Str(x) : x \in RoleMapDomain }

Payloads ==
    [sub : {Missing, NonStr, Str("user@corp")},
     role : RawRoles,
     team : {Missing, Null, NonStr, Str("Data")}]

NoPayload == [sub |-> Missing, role |-> Missing, team |-> Missing]
NothingProduced == [from |-> "nothing", ok |-> FALSE, claims |-> NoClaims]

InitClaims ==
    /\ payload \in Payloads
    /\ produced = NothingProduced

ClaimsIdle ==
    /\ payload = NoPayload
    /\ produced = NothingProduced

\* the guard's use of the normalizer on a decoded token
ModelValidate ==
    /\ produced.from = "nothing"
    /\ produced' = [from |-> "token"] @@ model_validate(payload)
    /\ UNCHANGED <<payload, loadVars, dataVars, authVars, laterVars>>

\* the normalizer applied to the development defaults
DefaultClaims ==
    /\ produced.from = "nothing"
    /\ produced' = [from |-> "defaults", ok |-> TRUE, claims |-> default_claims]
    /\ UNCHANGED <<payload, loadVars, dataVars, authVars, laterVars>>

NextClaims == ModelValidate \/ DefaultClaims

(***************************************************************************)
(* Requests.  A path is a sequence of tokens whose concatenation is the    *)
(* path string, so that str.startswith is a prefix test on the sequence.   *)
(***************************************************************************)
StartsWith(p, q) == Len(p) >= Len(q) /\ SubSeq(p, 1, Len(q)) = q

PathRoot == <<"/">>
PathHealth == <<"/", "health">>
PathHealthSlash == <<"/", "health", "/">>
PathAssetFile == <<"/", "assets", "/", "app.css">>
PathAssetsBackup == <<"/", "assets", "-backup">>
PathLayout == <<"/", "_dash-layout">>
PathUpdate == <<"/", "_dash-update-component">>

Paths ==
    {PathRoot, PathHealth, PathHealthSlash, PathAssetFile, PathAssetsBackup,
     PathLayout, PathUpdate}

\* A bearer token: undecodable text, or a JWT with a signature that
\* verifies under settings.jwt_secret or not, and its payload.
Tokens ==
    [jwt : BOOLEAN, sigOk : BOOLEAN, exp : {"missing", "past", "future"},
     iss : {None, Some("corp"), Some("evil")},
     aud : {None, Some("dash"), Some("other")},
     sub : {Missing, Str("user@corp")},
     role : {Missing, Str("CIO"), Str("EnterpriseArchitect"), Str("Developer")},
     team : {Missing, Str("Data")}]

GarbageToken ==
    [jwt |-> FALSE, sigOk |-> FALSE, exp |-> "missing", iss |-> None, aud |-> None,
     sub |-> Missing, role |-> Missing, team |-> Missing]

\* the Authorization header: absent, another scheme, or "Bearer <token>"
Headers ==
    { [scheme |-> sc, token |-> GarbageToken] : sc \in {"", "Basic"} } \cup
    { [scheme |-> "Bearer", token |-> t] : t \in { u \in Tokens : u.jwt } \cup {GarbageToken} }

HttpRequests == [path : Paths, auth : Headers]

SettingsSpace ==
    [disable_auth : BOOLEAN, jwt_issuer : {None, Some("corp")}, jwt_audience : {None, Some("dash")}]

(***************************************************************************)
(* AuthService                                                             *)
(***************************************************************************)
\* _decode_jwt: jwt.decode with HS256, exp required and verified, issuer
\* and audience checked when configured.  Returns [ok, payload].
decode_jwt(st, token) ==
    LET good ==
          /\ token.jwt
          /\ token.sigOk
          /\ token.exp = "future"
          /\ st.jwt_issuer # None => token.iss = st.jwt_issuer
          /\ IF st.jwt_audience # None THEN token.aud = st.jwt_audience ELSE token.aud = None
    IN  [ok |-> good, payload |-> [sub |-> token.sub, role |-> token.role, team |-> token.team]]

Guarded(status, claims, defaulted) ==
    [status |-> status, claims |-> claims, defaulted |-> defaulted]

NotGuarded == Guarded("none", None, FALSE)

RequireAuthFallsBack(st, req) ==
    IF StartsWith(req.path, <<"/", "assets">>) \/ req.path = PathHealth
    THEN Guarded("pass", None, FALSE)
    ELSE IF st.disable_auth
    THEN Guarded("pass", Some(default_claims), TRUE)
    ELSE IF req.auth.scheme # "Bearer"
    THEN Guarded("401", None, FALSE)
    ELSE LET decoded == decode_jwt(st, req.auth.token)
             model == model_validate(decoded.payload)
         IN  IF decoded.ok /\ model.ok
             THEN Guarded("pass", Some(model.claims), FALSE)
             ELSE Guarded("pass", Some(default_claims), TRUE)

\* init_app.require_auth, the before_request guard
require_auth(st, req) ==
    IF StartsWith(req.path, <<"/", "assets">>) \/ req.path = PathHealth
    THEN Guarded("pass", None, FALSE)
    ELSE IF st.disable_auth
    THEN Guarded("pass", Some(default_claims), TRUE)
    ELSE IF req.auth.scheme # "Bearer"
    THEN Guarded("401", None, FALSE)
    ELSE LET decoded == decode_jwt(st, req.auth.token)
             model == model_validate(decoded.payload)
         IN  IF decoded.ok /\ model.ok
             THEN Guarded("pass", Some(model.claims), FALSE)
             ELSE Guarded("401", None, FALSE)

\* current_claims: getattr(g, "claims", self.default_claims()).
\* Returns [claims, defaulted].
current_claims(guarded) ==
    IF guarded.claims # None
    THEN [claims |-> guarded.claims[1], defaulted |-> guarded.defaulted]
    ELSE [claims |-> default_claims, defaulted |-> TRUE]

(***************************************************************************)
(* The views behind the guard                                              *)
(***************************************************************************)
TeamRows ==
    { [date |-> [day |-> 1, tod |-> 0], team |-> t, revenue |-> 3, cost |-> 1,
       profit |-> Some(2)] : t \in {"Data", "Platform"} }

LoadedDatasets == SeqsUpTo(TeamRows, MaxTeamRows)

\* the claims-store state a client sends with the callback: null, or an
\* object whose role and team keys may be absent
ClientClaims ==
    {None} \cup
    { Some([role |-> r, team |-> t]) :
        r \in {Missing} \cup { Str(x) : x \in CanonicalRoles },
        t \in {Missing, Null, Str(""), Str("Data")} }

\* what the honest client sends: the claims-store build_layout filled
StoreOf(claims) ==
    Some([role |-> Str(claims.role),
          team |-> IF claims.team = None THEN Null ELSE Str(claims.team[1])])

IsTeam(row, t) == row.team = t

\* callbacks.bootstrap_data, lines 87-91
\* role = (claims or {}).get("role", "Developer")
claims_role(claims) ==
    IF claims = None \/ claims[1].role.kind = "missing" THEN Str("Developer") ELSE claims[1].role

\* team = (claims or {}).get("team")
claims_team(claims) ==
    IF claims = None \/ claims[1].team.kind = "missing" THEN Null ELSE claims[1].team

NarrowForEveryRole(df, claims) ==
    LET team == claims_team(claims)
    IN  IF team.kind = "str" /\ team.s # ""
        THEN SelectSeq(df, LAMBDA row : IsTeam(row, team.s))
        ELSE df

rbac_narrow(df, claims) ==
    LET role == claims_role(claims)
        team == claims_team(claims)
    IN  IF role = Str("Developer") /\ team.kind = "str" /\ team.s # ""
        THEN SelectSeq(df, LAMBDA row : IsTeam(row, team.s))
        ELSE df

NoResponse ==
    [view |-> "none", status |-> 0, store |-> None, claimsArg |-> None, loaded |-> <<>>,
     rows |-> <<>>, role |-> Missing, defaulted |-> FALSE]

InitAuth ==
    /\ settings \in SettingsSpace
    /\ request = None
    /\ g = NotGuarded
    /\ response = NoResponse

AuthIdle ==
    /\ settings = [disable_auth |-> TRUE, jwt_issuer |-> None, jwt_audience |-> None]
    /\ request = None
    /\ g = NotGuarded
    /\ response = NoResponse

\* A request arrives and the before_request guard runs.
Guard ==
    /\ request = None /\ g.status = "none"
    /\ \E req \in HttpRequests :
        /\ request' = Some(req)
        /\ g' = require_auth(settings, req)
    /\ UNCHANGED <<settings, response, loadVars, dataVars, claimVars, laterVars>>

\* abort(401): no view runs
Abort401 ==
    /\ request # None /\ g.status = "401"
    /\ response' = [NoResponse EXCEPT !.view = "abort", !.status = 401]
    /\ request' = None
    /\ UNCHANGED <<settings, g, loadVars, dataVars, claimVars, laterVars>>

\* server.health
Health ==
    /\ request # None /\ g.status = "pass" /\ request[1].path = PathHealth
    /\ response' = [NoResponse EXCEPT !.view = "health", !.status = 200]
    /\ request' = None
    /\ UNCHANGED <<settings, g, loadVars, dataVars, claimVars, laterVars>>

\* a static asset, Dash's index page or a 404: no claims are read
OtherView ==
    /\ request # None /\ g.status = "pass"
    /\ request[1].path \notin {PathHealth, PathLayout, PathUpdate}
    /\ response' = [NoResponse EXCEPT !.view = "other", !.status = 200]
    /\ request' = None
    /\ UNCHANGED <<settings, g, loadVars, dataVars, claimVars, laterVars>>

\* ui.build_layout, lines 35-36 and 53: the claims go to the claims-store
BuildLayout ==
    /\ request # None /\ g.status = "pass" /\ request[1].path = PathLayout
    /\ LET cur == current_claims(g)
       IN  response' = [NoResponse EXCEPT !.view = "layout", !.status = 200,
                                          !.store = StoreOf(cur.claims),
                                          !.role = Str(cur.claims.role),
                                          !.defaulted = cur.defaulted]
    /\ request' = None
    /\ UNCHANGED <<settings, g, loadVars, dataVars, claimVars, laterVars>>

\* callbacks.bootstrap_data on the dataset get_data returned, with the
\* claims-store state the client sent
BootstrapData ==
    /\ request # None /\ g.status = "pass" /\ request[1].path = PathUpdate
    /\ \E df \in LoadedDatasets, claims \in ClientClaims :
        response' = [NoResponse EXCEPT !.view = "bootstrap_data", !.status = 200,
                                       !.claimsArg = claims,
                                       !.loaded = df,
                                       !.rows = rbac_narrow(df, claims),
                                       !.role = claims_role(claims),
                                       !.defaulted =
                                            (claims = None \/ claims[1].role.kind = "missing")]
    /\ request' = None
    /\ UNCHANGED <<settings, g, loadVars, dataVars, claimVars, laterVars>>

NextAuth == Guard \/ Abort401 \/ Health \/ OtherView \/ BuildLayout \/ BootstrapData


(***************************************************************************)
(* ui.build_layout: the parts of the component tree that depend on the     *)
(* claims and on the dataset.                                              *)
(***************************************************************************)
\* lines 47-49
show_cio(role) == role = "CIO"
show_arch(role) == role = "Architect"
show_dev(role) == role = "Developer"

\* line 115: the selected tab
tabs_value(role) ==
    IF show_cio(role) THEN "cio" ELSE IF show_arch(role) THEN "arch" ELSE "dev"

KpiDisplayAlways(role) == "flex"

\* line 110: the style.display of the kpi-row
kpi_display(role) == IF show_cio(role) \/ show_arch(role) THEN "flex" ELSE "none"

\* the claims current_claims() can return: a validated model dump (with or
\* without a name) or the defaults
LayoutClaims ==
    { [c EXCEPT !.name = n] :
        c \in { model_validate(pl).claims : pl \in { q \in Payloads : model_validate(q).ok } }
                \cup {default_claims},
        n \in {None, Some("Ann")} }

NoLayout ==
    [built |-> FALSE, user_name |-> None, role |-> "", kpi_display |-> "",
     tabs_value |-> "", enabled |-> {}, teams |-> {}]

\* `enabled` is the set of tabs whose `disabled` property is False
build_layout(claims, df) ==
    LET role == claims.role
    IN  [built |-> TRUE,
         user_name |-> claims.name,
         role |-> role,
         kpi_display |-> kpi_display(role),
         tabs_value |-> tabs_value(role),
         enabled |-> { t \in {"cio", "arch", "dev"} :
                         \/ t = "cio" /\ show_cio(role)
                         \/ t = "arch" /\ show_arch(role)
                         \/ t = "dev" /\ show_dev(role) },
         teams |-> { df[i].team : i \in DOMAIN df }]

InitLayout ==
    /\ layoutClaims \in LayoutClaims
    /\ layoutData \in LoadedDatasets
    /\ layout = NoLayout

LayoutIdle ==
    /\ layoutClaims = default_claims
    /\ layoutData = <<>>
    /\ layout = NoLayout

\* serve_layout() for one request
ServeLayout ==
    /\ ~layout.built
    /\ layout' = build_layout(layoutClaims, layoutData)
    /\ UNCHANGED <<layoutClaims, layoutData, coreVars, filterVars, moneyVars, vizVars, provVars, envVars>>

NextLayout == ServeLayout


(***************************************************************************)
(* callbacks._filter_df.  A string is a sequence of one-character strings. *)
(* A fact row carries the ten schema columns; its date is a datetime.date  *)
(* (kind "date") when the frame was built from Python objects and an ISO   *)
(* string (kind "iso") when it was built from the JSON of the data-store.  *)
(***************************************************************************)
\* longest frame that is enumerated
MaxFactRows == 2

FactDate(kind, day) == [kind |-> kind, day |-> day]

FactRow(day, product, region, system, team, owner, status, revenue, cost) ==
    [date |-> FactDate("date", day), product |-> product, region |-> region,
     system |-> system, team |-> team, owner |-> owner, status |-> status,
     revenue |-> revenue, cost |-> cost, profit |-> revenue - cost]

FactRows ==
    { FactRow(1, "A", "EMEA", "Core", "Data", <<"a", "b">>, "Green", 3, 1),
      FactRow(2, "B", "APAC", "Web", "Platform", <<"B", "o">>, "Red", 1, 2),
      FactRow(2, "A", "EMEA", "Core", "Data", <<"c", ".">>, "Amber", 2, 2) }

\* json.dumps of a record and json.loads back: a date becomes its ISO string
to_json(row) == [row EXCEPT !.date = FactDate("iso", row.date.day)]

Frames == SeqsUpTo(FactRows, MaxFactRows)

JsonFrames == { [i \in DOMAIN df |-> to_json(df[i])] : df \in Frames }

\* str.lower() and str.strip() on the characters the model uses
LowerChar(c) == CASE c = "A" -> "a" [] c = "B" -> "b" [] OTHER -> c
Lower(str) == [i \in DOMAIN str |-> LowerChar(str[i])]

RECURSIVE LStrip(_)
LStrip(str) == IF str # <<>> /\ Head(str) = " " THEN LStrip(Tail(str)) ELSE str

RECURSIVE RStrip(_)
RStrip(str) ==
    IF str # <<>> /\ str[Len(str)] = " " THEN RStrip(SubSeq(str, 1, Len(str) - 1)) ELSE str

Strip(str) == RStrip(LStrip(str))

\* a date string of the date picker: a calendar day, the empty string, or
\* text pd.to_datetime cannot parse
Ymd(day) == [kind |-> "ymd", day |-> day]
EmptyStr == [kind |-> "empty", day |-> 0]
BadDate == [kind |-> "bad", day |-> 0]

\* `if start_date:` on a date string, `if products:` on a list or a string
TruthyDate(opt) == opt # None /\ opt[1].kind # "empty"
Truthy(opt) == opt # None /\ opt[1] # <<>>

\* pd.to_datetime(s).date(): raises on unparseable text
to_datetime_raises(s) == s.kind = "bad"

\* df["date"] >= d and df["date"] <= d compare every element with a
\* datetime.date: ordering a str against a date raises TypeError
date_cmp_raises(df) == \E i \in DOMAIN df : df[i].date.kind # "date"

\* Series.isin(values)
isin(v, values) == \E i \in DOMAIN values : values[i] = v

\* re.search(pat, s) for a pattern of literal characters and ".", which
\* matches any character
SubstringContains(pat, str) ==
    \E i \in 0..(Len(str) - Len(pat)) :
        \A j \in 1..Len(pat) : pat[j] = str[i + j]

\* Series.str.contains(q, na=False): regex=True by default
str_contains(pat, str) ==
    \E i \in 0..(Len(str) - Len(pat)) :
        \A j \in 1..Len(pat) : pat[j] = "." \/ pat[j] = str[i + j]

Raised == [raised |-> TRUE, rows |-> <<>>]

ReturnedWithoutFirst(df) == [raised |-> FALSE, rows |-> IF df = <<>> THEN df ELSE Tail(df)]

\* line 63: return df
Returned(df) == [raised |-> FALSE, rows |-> df]

\* _filter_df, lines 46-63
filter_df(df, start_date, end_date, products, regions, systems, teams, min_profit, owner_query) ==
    IF \/ TruthyDate(start_date) /\ (to_datetime_raises(start_date[1]) \/ date_cmp_raises(df))
       \/ TruthyDate(end_date) /\ (to_datetime_raises(end_date[1]) \/ date_cmp_raises(df))
    THEN Raised
    ELSE LET d1 == IF TruthyDate(start_date)
                   THEN SelectSeq(df, LAMBDA row : row.date.day >= start_date[1].day) ELSE df
             d2 == IF TruthyDate(end_date)
                   THEN SelectSeq(d1, LAMBDA row : row.date.day <= end_date[1].day) ELSE d1
             d3 == IF Truthy(products)
                   THEN SelectSeq(d2, LAMBDA row : isin(row.product, products[1])) ELSE d2
             d4 == IF Truthy(regions)
                   THEN SelectSeq(d3, LAMBDA row : isin(row.region, regions[1])) ELSE d3
             d5 == IF Truthy(systems)
                   THEN SelectSeq(d4, LAMBDA row : isin(row.system, systems[1])) ELSE d4
             d6 == IF Truthy(teams)
                   THEN SelectSeq(d5, LAMBDA row : isin(row.team, teams[1])) ELSE d5
             d7 == IF Truthy(owner_query)
                   THEN SelectSeq(d6, LAMBDA row :
                            str_contains(Lower(Strip(owner_query[1])), Lower(row.owner)))
                   ELSE d6
             d8 == IF min_profit # None
                   THEN SelectSeq(d7, LAMBDA row : row.profit >= min_profit[1]) ELSE d7
         IN  Returned(d8)

FilterSpecs ==
    [start_date : {None, Some(EmptyStr), Some(Ymd(2)), Some(BadDate)},
     end_date : {None, Some(Ymd(1)), Some(Ymd(2))},
     products : {None, Some(<<>>), Some(<<"A">>)},
     regions : {None, Some(<<"APAC", "EMEA">>)},
     systems : {None, Some(<<"Web">>)},
     teams : {None, Some(<<"Data">>)},
     min_profit : {None, Some(0), Some(1)},
     owner_query : {None, Some(<<>>), Some(<<"B", " ">>), Some(<<".">>)}]

NoSpec ==
    [start_date |-> None, end_date |-> None, products |-> None, regions |-> None,
     systems |-> None, teams |-> None, min_profit |-> None, owner_query |-> None]

apply_filter(df, spec) ==
    filter_df(df, spec.start_date, spec.end_date, spec.products, spec.regions,
              spec.systems, spec.teams, spec.min_profit, spec.owner_query)

NotFiltered == [called |-> FALSE, raised |-> FALSE, rows |-> <<>>]
Filtered(res) == [called |-> TRUE, raised |-> res.raised, rows |-> res.rows]

InitFilter ==
    /\ filterDf \in Frames \cup JsonFrames
    /\ filterSpec = NoSpec
    /\ filterOut = NotFiltered
    /\ filterAgain = NotFiltered

FilterIdle ==
    /\ filterDf = <<>>
    /\ filterSpec = NoSpec
    /\ filterOut = NotFiltered
    /\ filterAgain = NotFiltered

\* _filter_df(df, ...) with some filter specification
FilterDf ==
    /\ ~filterOut.called
    /\ \E spec \in FilterSpecs :
        /\ filterSpec' = spec
        /\ filterOut' = Filtered(apply_filter(filterDf, spec))
    /\ UNCHANGED <<filterDf, filterAgain, coreVars, layoutVars, moneyVars, vizVars, provVars, envVars>>

\* _filter_df on the frame the first call returned, same specification
FilterDfAgain ==
    /\ filterOut.called /\ ~filterOut.raised /\ ~filterAgain.called
    /\ filterAgain' = Filtered(apply_filter(filterOut.rows, filterSpec))
    /\ UNCHANGED <<filterDf, filterSpec, filterOut, coreVars, layoutVars, moneyVars, vizVars, provVars, envVars>>

NextFilter == FilterDf \/ FilterDfAgain


(***************************************************************************)
(* utils.fmt_money.  The argument is the number m * 1000^e, kept as the    *)
(* pair (m, e) so that trillions fit; the text is the whole number that    *)
(* "{x:,.0f}" prints (digit grouping aside) and the unit suffix.           *)
(***************************************************************************)
Money(m, e) == [m |-> m, e |-> e]

Abs(n) == IF n < 0 THEN -n ELSE n

RECURSIVE Pow1000(_)
Pow1000(k) == IF k = 0 THEN 1 ELSE 1000 * Pow1000(k - 1)

\* line 11
Units == <<"", "K", "M", "B">>

\* "{x:.0f}" of the number n / d: the nearest whole number, a tie going to
\* the even one (Python rounds the float correctly, half to even)
RoundHalfEven(n, d) ==
    LET q == n \div d
        r == n % d
    IN  IF 2 * r < d THEN q
        ELSE IF 2 * r > d THEN q + 1
        ELSE IF q % 2 = 0 THEN q ELSE q + 1

\* abs(x) < 1000.0 for x = m * 1000^s
below_1000(m, s) ==
    IF s >= 1 THEN m = 0 ELSE Abs(m) < Pow1000(1 - s)

\* "{x:,.0f}" for x = m * 1000^s
render(m, s) ==
    IF m = 0 THEN 0
    ELSE IF s >= 0 THEN m * Pow1000(s) ELSE RoundHalfEven(m, Pow1000(-s))

MoneyText(value, unit) == [done |-> TRUE, value |-> value, unit |-> unit]
NoMoneyText == [done |-> FALSE, value |-> 0, unit |-> ""]

\* lines 11-15: i units have been tried and x has been divided i times
RECURSIVE fmt_money_from(_, _)
fmt_money_from(x, i) ==
    IF i > Len(Units) THEN MoneyText(render(x.m, x.e - (i - 1)), "T")
    ELSE IF below_1000(x.m, x.e - (i - 1))
         THEN MoneyText(render(x.m, x.e - (i - 1)), Units[i])
         ELSE fmt_money_from(x, i + 1)

fmt_money(x) == fmt_money_from(x, 1)

Mantissas ==
    {0, 1, 2, 7, 499, 500, 501, 999, 1000, 1499, 1500, 1501, 2500, 3500,
     12300, 12500, 12900, 999499, 999500, -1, -999, -1500, -12900}

MoneyArgs == { Money(m, e) : m \in Mantissas, e \in 0..Len(Units) }

InitMoney ==
    /\ moneyArg \in MoneyArgs
    /\ moneyText = NoMoneyText

MoneyIdle ==
    /\ moneyArg = Money(0, 0)
    /\ moneyText = NoMoneyText

FmtMoney ==
    /\ ~moneyText.done
    /\ moneyText' = fmt_money(moneyArg)
    /\ UNCHANGED <<moneyArg, coreVars, layoutVars, filterVars, vizVars, provVars, envVars>>

NextMoney == FmtMoney


(***************************************************************************)
(* callbacks.update_viz.  A figure is the set of its series; a series is   *)
(* its name and its points; a point is the x value with the y value        *)
(* total / n (n is 1 unless the aggregation is the mean).                  *)
(***************************************************************************)
\* Filters.normalize_query, lines 35-41
normalize_query(v) ==
    IF v = None THEN None
    ELSE IF Strip(v[1]) = <<>> THEN None ELSE Some(Strip(v[1]))

\* Filters.ensure_list, lines 26-33, on what a multi-select dropdown sends:
\* null or a list, which is kept as it is
ensure_list(v) == v

\* Filters(...), lines 14-24: agg must be "sum" or "mean", groupby a string
Filters(args) ==
    IF args.agg \notin {"sum", "mean"} \/ args.groupby = None
    THEN [ok |-> FALSE, flt |-> NoSpec]
    ELSE [ok |-> TRUE,
          flt |-> [start_date |-> args.start_date, end_date |-> args.end_date,
                   products |-> ensure_list(args.products),
                   regions |-> ensure_list(args.regions),
                   systems |-> ensure_list(args.systems),
                   teams |-> ensure_list(args.teams),
                   min_profit |-> args.min_profit,
                   owner_query |-> normalize_query(args.owner_query)]]

RECURSIVE Total(_, _)
Total(rows, col) == IF rows = <<>> THEN 0 ELSE Head(rows)[col] + Total(Tail(rows), col)

RowsWith(rows, col, k) == SelectSeq(rows, LAMBDA row : row[col] = k)
Keys(rows, col) == { rows[i][col] : i \in DOMAIN rows }

Point(x, total, n) == [x |-> x, total |-> total, n |-> n]
Series(name, points) == [name |-> name, points |-> points]

\* lines 124 and 143: {"data": [], ...}
empty_fig == {}

EmptyState ==
    [called |-> TRUE, raised |-> FALSE, kpi_rev |-> None, kpi_cost |-> None,
     kpi_profit |-> None, kpi_red |-> None, fig1 |-> empty_fig, fig2 |-> empty_fig,
     fig3 |-> empty_fig, fig4 |-> empty_fig, table |-> <<>>]

VizRaised == [EmptyState EXCEPT !.raised = TRUE]
NotCalled == [EmptyState EXCEPT !.called = FALSE]

\* lines 150-152
kpi_total(fdf, col) == IF fdf = <<>> THEN 0 ELSE Total(fdf, col)

\* line 153
reference_date(end_date, today) == IF TruthyDate(end_date) THEN end_date[1].day ELSE today

\* line 154: fdf["date"] == today is False for a string, whatever it spells
red_count(fdf, today) ==
    Cardinality({ fdf[i].system : i \in { j \in DOMAIN fdf :
        /\ fdf[j].date.kind = "date" /\ fdf[j].date.day = today
        /\ fdf[j].status = "Red" } })

\* lines 162-166: one row per observed group
grouped(fdf, groupby, agg, col) ==
    IF fdf = <<>> THEN {}
    ELSE { Point(k, Total(RowsWith(fdf, groupby, k), col),
                 IF agg = "mean" THEN Len(RowsWith(fdf, groupby, k)) ELSE 1) :
           k \in Keys(fdf, groupby) }

\* lines 178-181
trend(fdf) ==
    IF fdf = <<>> THEN {}
    ELSE { Point(k, Total(RowsWith(fdf, "date", k), "profit"), 1) : k \in Keys(fdf, "date") }

\* lines 188-196: the observed (system, status) groups of one status
sys_health_part(fdf, status) ==
    IF fdf = <<>> THEN {}
    ELSE { Point(k, Len(SelectSeq(fdf, LAMBDA row : row.system = k /\ row.status = status)), 1) :
           k \in { fdf[i].system : i \in { j \in DOMAIN fdf : fdf[j].status = status } } }

\* lines 200-203
team_work(fdf) ==
    IF fdf = <<>> THEN {}
    ELSE { Point(k, Len(RowsWith(fdf, "team", k)), 1) : k \in Keys(fdf, "team") }

AggregatePlaceholders(fdf, end_date, agg, groupby, today) == EmptyState

\* lines 149-208
aggregate(fdf, end_date, agg, groupby, today) ==
    [called |-> TRUE, raised |-> FALSE,
     kpi_rev |-> Some(fmt_money(Money(kpi_total(fdf, "revenue"), 0))),
     kpi_cost |-> Some(fmt_money(Money(kpi_total(fdf, "cost"), 0))),
     kpi_profit |-> Some(fmt_money(Money(kpi_total(fdf, "profit"), 0))),
     kpi_red |-> Some(red_count(fdf, reference_date(end_date, today))),
     fig1 |-> { Series("Revenue", grouped(fdf, groupby, agg, "revenue")),
                Series("Cost", grouped(fdf, groupby, agg, "cost")) },
     fig2 |-> { Series("Profit", trend(fdf)) },
     fig3 |-> { Series(st, sys_health_part(fdf, st)) : st \in {"Green", "Amber", "Red"} },
     fig4 |-> { Series("Rows", team_work(fdf)) },
     table |-> fdf]

\* lines 121-208
update_viz(json, args, today) ==
    IF json = <<>> THEN EmptyState
    ELSE LET v == Filters(args)
         IN  IF ~v.ok THEN EmptyState
             ELSE LET f == apply_filter(json, v.flt)
                  IN  IF f.raised THEN VizRaised
                      ELSE aggregate(f.rows, args.end_date, args.agg, args.groupby[1], today)

VizArgs ==
    [start_date : {None, Some(Ymd(2)), Some(BadDate)},
     end_date : {None, Some(Ymd(2)), Some(BadDate)},
     products : {None, Some(<<>>), Some(<<"A">>), Some(<<"Z">>)},
     regions : {None},
     systems : {None},
     teams : {None, Some(<<"Data">>)},
     min_profit : {None, Some(0)},
     owner_query : {None, Some(<<" ">>), Some(<<"b">>)},
     agg : {"sum", "mean", "max"},
     groupby : {None, Some("date"), Some("system")}]

NoArgs ==
    [start_date |-> None, end_date |-> None, products |-> None, regions |-> None,
     systems |-> None, teams |-> None, min_profit |-> None, owner_query |-> None,
     agg |-> "sum", groupby |-> Some("date")]

\* the days dt.date.today() may be
Days == {1, 2}

InitViz ==
    /\ data_json \in JsonFrames
    /\ vizToday \in Days
    /\ vizArgs = NoArgs
    /\ vizOut = NotCalled

VizIdle ==
    /\ data_json = <<>>
    /\ vizToday = 1
    /\ vizArgs = NoArgs
    /\ vizOut = NotCalled

\* Dash invokes the callback with the data-store and the control values
UpdateViz ==
    /\ ~vizOut.called
    /\ \E args \in VizArgs :
        /\ vizArgs' = args
        /\ vizOut' = update_viz(data_json, args, vizToday)
    /\ UNCHANGED <<data_json, vizToday, coreVars, layoutVars, filterVars, moneyVars, provVars, envVars>>

NextViz == UpdateViz



(***************************************************************************)
(* Provider selection and the providers' load.  A string is modelled as    *)
(* the sequence of its parts; a remote operation is recorded in `io` with  *)
(* the timeout it was issued with (None: no timeout).                      *)
(***************************************************************************)
Url == <<"http://api">>
Slash == "/"
Dsn == <<"postgresql://h/db">>

\* str.upper on the mode strings that are enumerated
upper(str) ==
    CASE str = "rest" -> "REST"
      [] str = "sql" -> "SQL"
      [] str = "bogus" -> "BOGUS"
      [] OTHER -> str

\* Settings.data_source, lines 59 and 75-80: the value is upper-cased, then
\* it must be one of the three literals; the default is SYNTHETIC.
\* Returns [ok, value].
validate_data_source(raw) ==
    IF raw = None THEN [ok |-> TRUE, value |-> "SYNTHETIC"]
    ELSE [ok |-> upper(raw[1]) \in {"SYNTHETIC", "REST", "SQL"}, value |-> upper(raw[1])]

DefaultProviderSqlAsRest(st) ==
    IF st.data_source = "REST" THEN "RestProvider"
    ELSE IF st.data_source = "SQL" THEN "RestProvider"
    ELSE "SyntheticProvider"

\* DataRepository._default_provider
default_provider(st) ==
    IF st.data_source = "REST" THEN "RestProvider"
    ELSE IF st.data_source = "SQL" THEN "SqlProvider"
    ELSE "SyntheticProvider"

\* str.rstrip("/")
RECURSIVE rstrip_slash(_)
rstrip_slash(str) ==
    IF str # <<>> /\ str[Len(str)] = Slash
    THEN rstrip_slash(SubSeq(str, 1, Len(str) - 1))
    ELSE str

EndpointsWithoutCheck(st) == <<rstrip_slash(st.api_base_url) \o <<Slash, "metrics">>>>

\* RestProvider._endpoints
endpoints(st) ==
    LET base == rstrip_slash(st.api_base_url)
    IN  IF base = <<>> THEN <<>> ELSE <<base \o <<Slash, "metrics">>>>

IoOp(kind, timeout) == [kind |-> kind, timeout |-> timeout]

\* The outcome of the first step of provider.load(): the dataset at once
\* (rows: how many, synthetic: generated locally) or a remote operation.
ProvReturned(rows, synthetic) ==
    [pc |-> "returned", rows |-> rows, synthetic |-> synthetic, op |-> None]
ProvWaiting(op) == [pc |-> "io", rows |-> 0, synthetic |-> FALSE, op |-> Some(op)]
ProvRaised(exc) == [pc |-> exc, rows |-> 0, synthetic |-> FALSE, op |-> None]
ProvNotCalled == [pc |-> "idle", rows |-> 0, synthetic |-> FALSE, op |-> None]

\* SyntheticProvider.load: settings.max_rows generated rows
synthetic_load(st) == ProvReturned(st.max_rows, TRUE)

\* RestProvider.load up to requests.get(url, timeout=30)
rest_load(st) ==
    IF endpoints(st) = <<>> THEN synthetic_load(st)
    ELSE ProvWaiting(IoOp("http_get", Some(30)))

\* SqlProvider.load up to pd.read_sql(sql, engine): neither create_engine
\* nor read_sql is given a timeout
sql_load(st) ==
    IF st.db_url = <<>> THEN synthetic_load(st)
    ELSE ProvWaiting(IoOp("sql_query", None))

provider_load(provider, st) ==
    CASE provider = "RestProvider" -> rest_load(st)
      [] provider = "SqlProvider" -> sql_load(st)
      [] OTHER -> synthetic_load(st)

\* The configured values.  validated: the settings are a Settings object
\* built from the environment (get_settings()); otherwise an object handed
\* to the constructor as it is.
CfgInputs ==
    { c \in [data_source : {None, Some("REST"), Some("rest"), Some("SQL"),
                            Some("SYNTHETIC"), Some("bogus")},
             validated : BOOLEAN,
             api_base_url : {<<>>, <<Slash>>, Url, Url \o <<Slash>>},
             db_url : {<<>>, Dsn},
             max_rows : 1..MaxCap] :
        ~c.validated => c.data_source # None }

NoRepo == [state |-> "none", settings |-> None, provider |-> ""]

InitProv ==
    /\ cfgInput \in CfgInputs
    /\ repo = NoRepo
    /\ io = <<>>
    /\ provLoad = ProvNotCalled

ProvIdle ==
    /\ cfgInput = [data_source |-> None, validated |-> TRUE, api_base_url |-> <<>>,
                   db_url |-> <<>>, max_rows |-> 1]
    /\ repo = NoRepo
    /\ io = <<>>
    /\ provLoad = ProvNotCalled

\* DataRepository.__init__: settings or get_settings(), then the default
\* provider.  Settings() raises on a mode that is not one of the literals.
NewRepository ==
    /\ repo.state = "none"
    /\ LET checked == validate_data_source(cfgInput.data_source)
           st == [data_source |-> IF cfgInput.validated THEN checked.value
                                  ELSE cfgInput.data_source[1],
                  api_base_url |-> cfgInput.api_base_url,
                  db_url |-> cfgInput.db_url,
                  max_rows |-> cfgInput.max_rows]
       IN  IF cfgInput.validated /\ ~checked.ok
           THEN repo' = [NoRepo EXCEPT !.state = "config_error"]
           ELSE repo' = [state |-> "built", settings |-> Some(st),
                         provider |-> default_provider(st)]
    /\ UNCHANGED <<cfgInput, io, provLoad, coreVars, layoutVars, filterVars, moneyVars, vizVars, envVars>>

\* load_uncached, line 41: self.provider.load()
ProviderLoad ==
    /\ repo.state = "built" /\ provLoad.pc = "idle"
    /\ provLoad' = provider_load(repo.provider, repo.settings[1])
    /\ io' = IF provLoad'.op # None THEN Append(io, provLoad'.op[1]) ELSE io
    /\ UNCHANGED <<cfgInput, repo, coreVars, layoutVars, filterVars, moneyVars, vizVars, envVars>>

\* the remote side answers with n rows
IoReturns ==
    /\ provLoad.pc = "io"
    /\ \E n \in 0..MaxProviderRows : provLoad' = ProvReturned(n, FALSE)
    /\ UNCHANGED <<cfgInput, repo, io, coreVars, layoutVars, filterVars, moneyVars, vizVars, envVars>>

\* raise_for_status or a failed query
IoFails ==
    /\ provLoad.pc = "io"
    /\ provLoad' = ProvRaised("raised")
    /\ UNCHANGED <<cfgInput, repo, io, coreVars, layoutVars, filterVars, moneyVars, vizVars, envVars>>

\* the timeout the operation was issued with runs out
IoTimesOut ==
    /\ provLoad.pc = "io" /\ provLoad.op[1].timeout # None
    /\ provLoad' = ProvRaised("timed_out")
    /\ UNCHANGED <<cfgInput, repo, io, coreVars, layoutVars, filterVars, moneyVars, vizVars, envVars>>

NextProv == NewRepository \/ ProviderLoad \/ IoReturns \/ IoFails \/ IoTimesOut


(***************************************************************************)
(* config._EnvLoader and Settings: one setting, the application title.     *)
(* A mapping that keeps insertion order (a dict, os.environ) is a sequence *)
(* of (name, value) pairs with distinct names.  A value records where it   *)
(* was written: <<"process">>, or <<"file">> followed by the file's name.  *)
(***************************************************************************)
DictHas(d, k) == \E i \in 1..Len(d) : d[i][1] = k

\* d[k] = v: an existing name keeps its position
DictSet(d, k, v) ==
    IF DictHas(d, k)
    THEN [i \in 1..Len(d) |-> IF d[i][1] = k THEN <<k, v>> ELSE d[i]]
    ELSE Append(d, <<k, v>>)

RECURSIVE DictUpdate(_, _)
DictUpdate(d, pairs) ==
    IF pairs = <<>> THEN d
    ELSE DictUpdate(DictSet(d, pairs[1][1], pairs[1][2]), Tail(pairs))

DictGet(d, k) == (CHOOSE i \in 1..Len(d) : d[i][1] = k)

\* str.lower on the names and values that are enumerated
str_lower(str) ==
    CASE str = "APP_TITLE" -> "app_title"
      [] str = "PRODUCTION" -> "production"
      [] OTHER -> str

\* _EnvLoader.load, lines 24-25
app_env(environ) ==
    LET raw == str_lower(IF DictHas(environ, "APP_ENV")
                         THEN environ[DictGet(environ, "APP_ENV")][2][1]
                         ELSE "development")
    IN  IF raw \in {"dev", "development"} THEN "development" ELSE raw

EnvFilesLocalFirst(environ) ==
    << <<".env">>, <<".env", "local">>, <<".env", "dev">>,
       <<".env", app_env(environ)>>, <<".env", app_env(environ), "local">> >>

\* lines 27-33, lowest precedence first
env_files(environ) ==
    << <<".env">>, <<".env", "dev">>, <<".env", app_env(environ)>>,
       <<".env", "local">>, <<".env", app_env(environ), "local">> >>

\* lines 34-39: the files that exist, merged in that order
RECURSIVE merged_from(_, _, _)
merged_from(names, fs, acc) ==
    IF names = <<>> THEN acc
    ELSE merged_from(Tail(names), fs,
                     IF names[1] \in DOMAIN fs /\ fs[names[1]] # None
                     THEN DictUpdate(acc, fs[names[1]])
                     ELSE acc)

\* lines 40-42: only the names os.environ does not have are set
RECURSIVE setdefault_all(_, _)
setdefault_all(environ, pairs) ==
    IF pairs = <<>> THEN environ
    ELSE setdefault_all(IF DictHas(environ, pairs[1][1]) THEN environ
                        ELSE Append(environ, pairs[1]),
                        Tail(pairs))

EnvLoaderLoad(environ, fs) ==
    setdefault_all(environ, merged_from(env_files(environ), fs, <<>>))

\* Settings(): case_sensitive=False, so the environment is read through
\* {name.lower(): value}, in which a later name replaces an earlier one
\* of the same lower-case form; app_title is looked up by its alias.
RECURSIVE lowered(_, _)
lowered(environ, acc) ==
    IF environ = <<>> THEN acc
    ELSE lowered(Tail(environ), DictSet(acc, str_lower(environ[1][1]), environ[1][2]))

DefaultTitle == <<"default">>

settings_app_title(environ) ==
    LET seen == lowered(environ, <<>>)
    IN  IF DictHas(seen, "app_title") THEN seen[DictGet(seen, "app_title")][2]
        ELSE DefaultTitle

NoSettings == [built |-> FALSE, app_title |-> <<>>]

FileNames ==
    { <<".env">>, <<".env", "dev">>, <<".env", "development">>, <<".env", "local">>,
      <<".env", "development", "local">>, <<".env", "production">>,
      <<".env", "production", "local">> }

\* a file is absent, or it defines the title under one spelling of its name
FileContent(name, spelling) ==
    IF spelling = "absent" THEN None ELSE << <<spelling, <<"file">> \o name>> >>

ProcEnvs ==
    { a \o t :
        a \in { <<>> } \cup { << <<"APP_ENV", <<v>>>> >> : v \in {"dev", "PRODUCTION"} },
        t \in { <<>> } \cup { << <<k, <<"process">>>> >> : k \in {"APP_TITLE", "app_title"} } }

InitEnv ==
    /\ procEnv \in ProcEnvs
    /\ files \in { [n \in FileNames |-> FileContent(n, c[n])] :
                     c \in [FileNames -> {"absent", "APP_TITLE", "app_title"}] }
    /\ os_environ = procEnv
    /\ envSettings = NoSettings

EnvIdle ==
    /\ procEnv = <<>>
    /\ files = [n \in FileNames |-> None]
    /\ os_environ = <<>>
    /\ envSettings = NoSettings

\* Settings.from_env, lines 82-86: _EnvLoader.load(), then cls()
FromEnv ==
    /\ ~envSettings.built
    /\ os_environ' = EnvLoaderLoad(os_environ, files)
    /\ envSettings' = [built |-> TRUE, app_title |-> settings_app_title(os_environ')]
    /\ UNCHANGED <<procEnv, files, coreVars, layoutVars, filterVars, moneyVars, vizVars, provVars>>

NextEnv == FromEnv

vars == <<coreVars, laterVars>>

NextLoad == LoadUncachedCall

StartLoad == InitLoad /\ DataIdle /\ ClaimsIdle /\ AuthIdle /\ LayoutIdle /\ FilterIdle /\ MoneyIdle /\ VizIdle /\ ProvIdle /\ EnvIdle

SpecLoad == StartLoad /\ [][NextLoad]_vars

StartData == InitData /\ LoadIdle /\ ClaimsIdle /\ AuthIdle /\ LayoutIdle /\ FilterIdle /\ MoneyIdle /\ VizIdle /\ ProvIdle /\ EnvIdle

SpecData == StartData /\ [][NextData]_vars

StartClaims == InitClaims /\ LoadIdle /\ DataIdle /\ AuthIdle /\ LayoutIdle /\ FilterIdle /\ MoneyIdle /\ VizIdle /\ ProvIdle /\ EnvIdle

SpecClaims == StartClaims /\ [][NextClaims]_vars

StartAuth == InitAuth /\ LoadIdle /\ DataIdle /\ ClaimsIdle /\ LayoutIdle /\ FilterIdle /\ MoneyIdle /\ VizIdle /\ ProvIdle /\ EnvIdle

SpecAuth == StartAuth /\ [][NextAuth]_vars

CoreIdle == LoadIdle /\ DataIdle /\ ClaimsIdle /\ AuthIdle

StartLayout == InitLayout /\ CoreIdle /\ FilterIdle /\ MoneyIdle /\ VizIdle /\ ProvIdle /\ EnvIdle

StartFilter == InitFilter /\ CoreIdle /\ LayoutIdle /\ MoneyIdle /\ VizIdle /\ ProvIdle /\ EnvIdle

StartMoney == InitMoney /\ CoreIdle /\ LayoutIdle /\ FilterIdle /\ VizIdle /\ ProvIdle /\ EnvIdle

StartViz == InitViz /\ CoreIdle /\ LayoutIdle /\ FilterIdle /\ MoneyIdle /\ ProvIdle /\ EnvIdle

SpecViz == StartViz /\ [][NextViz]_vars

SpecMoney == StartMoney /\ [][NextMoney]_vars

SpecFilter == StartFilter /\ [][NextFilter]_vars

SpecLayout == StartLayout /\ [][NextLayout]_vars

StartProv == InitProv /\ CoreIdle /\ LayoutIdle /\ FilterIdle /\ MoneyIdle /\ VizIdle /\ EnvIdle

SpecProv == StartProv /\ [][NextProv]_vars

StartEnv == InitEnv /\ CoreIdle /\ LayoutIdle /\ FilterIdle /\ MoneyIdle /\ VizIdle /\ ProvIdle

SpecEnv == StartEnv /\ [][NextEnv]_vars

(***************************************************************************)
(* C1: with a real cache backend, a get_data call that finds an unexpired  *)
(* entry stored for its key (the day key of the same day, or the same      *)
(* forced key) does not invoke load_uncached, and a call whose key has no  *)
(* such entry (a forced key not used before) invokes it.  Two calls one    *)
(* after the other, same key, within the timeout: one invocation in all.   *)
(***************************************************************************)
C1_MemoizedOnce ==
    cache_backend # "none" =>
        \A r \in Requests :
            /\ calls[r].pc \in {"load", "store", "failed"} => ~calls[r].hadEntry
            /\ calls[r].pc \in {"store", "done"} =>
                  (calls[r].loaded <=> ~calls[r].hadEntry)

\* Two calls with the day key, the second served from the cache: one load
\* in all; then the state where a fresh forced key has loaded again.
C1_Witness ==
    /\ cache_backend = "serializing"
    /\ \E r1, r2 \in Requests :
        /\ r1 # r2
        /\ calls[r1].pc = "done" /\ calls[r2].pc = "done"
        /\ calls[r1].key = today_key(now) /\ calls[r2].key = today_key(now)
        /\ calls[r1].loaded /\ ~calls[r2].loaded /\ calls[r2].hadEntry
        /\ calls[r1].result.ver = calls[r2].result.ver
        /\ loads = 1

(***************************************************************************)
(* C2: every bootstrap_data invocation caused by a click on the refresh    *)
(* button runs the provider load once, whatever earlier or concurrent      *)
(* refresh invocations have stored in the cache.                           *)
(***************************************************************************)
C2_RefreshAlwaysLoads ==
    \A r \in Requests :
        calls[r].refresh /\ calls[r].pc = "done" => calls[r].loaded

(***************************************************************************)
(* C3: the dataset get_data returns is an independent copy: the only       *)
(* mutations visible in the dataset a caller holds are its own, no two     *)
(* callers hold the same object, and no caller's mutation reaches the      *)
(* snapshot held in the cache.                                             *)
(***************************************************************************)
C3_IndependentCopies ==
    /\ \A r \in Requests : calls[r].pc = "done" =>
          \A m \in mutated : m[1] = calls[r].result.obj[1] => m[2] = r
    /\ \A r1, r2 \in Requests :
          r1 # r2 /\ calls[r1].pc = "done" /\ calls[r2].pc = "done"
            => calls[r1].result.obj # calls[r2].result.obj
    /\ \A e \in cache : e.obj # None =>
          /\ \A m \in mutated : m[1] # e.obj[1]
          /\ \A r \in Requests : calls[r].pc = "done" => calls[r].result.obj # e.obj

\* Two callers hold the same cached snapshot (same key, same version) from
\* a backend that keeps the object, and one of them has mutated its copy.
C3_Witness ==
    /\ cache_backend = "in_memory"
    /\ \E r1, r2 \in Requests :
        /\ r1 # r2
        /\ calls[r1].pc = "done" /\ calls[r2].pc = "done"
        /\ calls[r1].key = calls[r2].key
        /\ calls[r1].result.ver = calls[r2].result.ver
        /\ <<calls[r1].result.obj[1], r1>> \in mutated
        /\ \E e \in cache : e.key = calls[r1].key /\ e.ver = calls[r1].result.ver

(***************************************************************************)
(* C4: for every row of every dataset load_uncached returns, profit equals *)
(* revenue - cost, whatever profit the provider supplied.                  *)
(***************************************************************************)
C4_ProfitInvariant ==
    \A n \in 1..Len(loadResults) : \A i \in 1..Len(loadResults[n]) :
        loadResults[n][i].profit = Some(loadResults[n][i].revenue - loadResults[n][i].cost)

(***************************************************************************)
(* C5: if the provider returns M > K rows, load_uncached returns exactly K *)
(* rows, each the row at a distinct position of the provider output, and a *)
(* second call returns the same rows; if M <= K it returns all M rows.     *)
(***************************************************************************)
SameRow(a, b) ==
    /\ a.date.day = b.date.day
    /\ a.team = b.team
    /\ a.revenue = b.revenue
    /\ a.cost = b.cost
    /\ a.profit = b.profit

IsSelectionOf(out, df) ==
    \E idx \in [1..Len(out) -> 1..Len(df)] :
        /\ \A i, j \in 1..Len(out) : i # j => idx[i] # idx[j]
        /\ \A i \in 1..Len(out) : SameRow(out[i], df[idx[i]])

C5_Capping ==
    /\ \A n \in 1..Len(loadResults) :
        LET out == loadResults[n]
            M == Len(providerOut)
        IN  /\ M > max_rows => Len(out) = max_rows /\ IsSelectionOf(out, providerOut)
            /\ M <= max_rows =>
                  /\ Len(out) = M
                  /\ \A i \in 1..M : SameRow(out[i], providerOut[i])
    /\ Len(loadResults) = 2 => loadResults[1] = loadResults[2]

C5_Witness ==
    /\ Len(providerOut) > max_rows
    /\ max_rows = 2
    /\ Len(loadResults) = 2
    /\ \E i, j \in 1..Len(providerOut) : ~SameRow(providerOut[i], providerOut[j])
(***************************************************************************)
(* C6: with authentication enabled, a request on a path the guard does not *)
(* exempt whose token fails validation (missing or non-Bearer header,      *)
(* undecodable token, bad signature, expired or missing exp, wrong issuer  *)
(* or audience when configured, claims without a subject) is rejected with *)
(* 401: no claims are set, default or other, and no view runs.             *)
(***************************************************************************)
ExemptByGuard(path) == StartsWith(path, <<"/", "assets">>) \/ path = PathHealth

FailsValidation(st, auth) ==
    \/ auth.scheme # "Bearer"
    \/ ~auth.token.jwt
    \/ ~auth.token.sigOk
    \/ auth.token.exp \in {"missing", "past"}
    \/ st.jwt_issuer # None /\ auth.token.iss # st.jwt_issuer
    \/ st.jwt_audience # None /\ auth.token.aud # st.jwt_audience
    \/ auth.token.sub.kind # "str"

C6_InvalidTokenRejected ==
    /\ ( /\ request # None /\ g.status # "none"
         /\ ~settings.disable_auth
         /\ ~ExemptByGuard(request[1].path)
         /\ FailsValidation(settings, request[1].auth) )
       => g.status = "401" /\ g.claims = None
    /\ g.status = "401" =>
          /\ g.claims = None
          /\ response.view \in {"none", "abort"}
          /\ response.store = None /\ response.rows = <<>>

\* An expired token with a good signature, on the callback path, rejected.
C6_Witness ==
    /\ request # None /\ g.status = "401"
    /\ ~settings.disable_auth
    /\ request[1].path = PathUpdate
    /\ request[1].auth.scheme = "Bearer"
    /\ request[1].auth.token.jwt /\ request[1].auth.token.sigOk
    /\ request[1].auth.token.exp = "past"
    /\ request[1].auth.token.sub = Str("user@corp")

(***************************************************************************)
(* C7: with authentication enabled, a request passes the guard without a   *)
(* valid Bearer token only if its path is /health or a static-asset path   *)
(* (a path under /assets/).                                                *)
(***************************************************************************)
IsStaticAssetPath(path) == StartsWith(path, <<"/", "assets", "/">>)

C7_OnlyProbeAndAssetsExempt ==
    ( /\ request # None /\ g.status = "pass"
      /\ ~settings.disable_auth
      /\ FailsValidation(settings, request[1].auth) )
    => request[1].path = PathHealth \/ IsStaticAssetPath(request[1].path)

(***************************************************************************)
(* C8: with authentication enabled, nothing acts on the default identity   *)
(* or on a default role: neither the guard, nor current_claims under       *)
(* build_layout, nor bootstrap_data.                                       *)
(***************************************************************************)
C8_NoDefaultWhenAuthEnabled ==
    ~settings.disable_auth => ~g.defaulted /\ ~response.defaulted

(***************************************************************************)
(* C9: every claims object the normalizer produces has a role among CIO,   *)
(* Architect and Developer: the raw role mapped through the alias table by *)
(* exact match, everything else (unknown, differently cased, empty,        *)
(* missing, null, not a string) being Developer; the defaults likewise.    *)
(***************************************************************************)
ExpectedRole(v) ==
    IF v.kind = "str" /\ v.s \in {"CIO", "ChiefInformationOfficer"} THEN "CIO"
    ELSE IF v.kind = "str" /\
            v.s \in {"Architect", "EnterpriseArchitect", "SystemArchitect", "SolutionArchitect"}
         THEN "Architect"
    ELSE "Developer"

C9_RoleCanonical ==
    produced.ok =>
        /\ produced.claims.role \in {"CIO", "Architect", "Developer"}
        /\ produced.from = "token" => produced.claims.role = ExpectedRole(payload.role)
        /\ produced.from = "defaults" => produced.claims.role = "Developer"

C9_Witness ==
    /\ produced.ok /\ produced.from = "token"
    /\ payload.role = Str("SolutionArchitect")
    /\ produced.claims.role = "Architect"

(***************************************************************************)
(* C10: bootstrap_data returns exactly the rows whose team is t for a      *)
(* Developer claim with a team t (a non-empty string), and the whole       *)
(* loaded dataset for a CIO or Architect claim and for a Developer claim   *)
(* with no team (absent, null or empty).                                   *)
(***************************************************************************)
C10_TeamNarrowing ==
    response.view = "bootstrap_data" /\ response.claimsArg # None =>
        LET c == response.claimsArg[1]
            hasTeam == c.team.kind = "str" /\ c.team.s # ""
        IN  /\ c.role = Str("Developer") /\ hasTeam =>
                  response.rows = SelectSeq(response.loaded, LAMBDA row : row.team = c.team.s)
            /\ c.role \in {Str("CIO"), Str("Architect")} => response.rows = response.loaded
            /\ c.role = Str("Developer") /\ ~hasTeam => response.rows = response.loaded

\* A Developer of team Data gets one of the two rows of a mixed dataset.
C10_Witness ==
    /\ response.view = "bootstrap_data"
    /\ response.claimsArg = Some([role |-> Str("Developer"), team |-> Str("Data")])
    /\ Len(response.loaded) = 2
    /\ Len(response.rows) = 1
    /\ response.rows[1].team = "Data"
(***************************************************************************)
(* C11: for every normalized role build_layout enables exactly one persona *)
(* tab and selects it (cio for CIO, arch for Architect, dev for            *)
(* Developer), and the KPI row is displayed iff the role is CIO or         *)
(* Architect.                                                              *)
(***************************************************************************)
PersonaTab(role) ==
    CASE role = "CIO" -> "cio"
      [] role = "Architect" -> "arch"
      [] role = "Developer" -> "dev"

C11_PersonaTabs ==
    layout.built /\ layoutClaims.role \in CanonicalRoles =>
        /\ layout.enabled = {PersonaTab(layoutClaims.role)}
        /\ layout.tabs_value = PersonaTab(layoutClaims.role)
        /\ (layout.kpi_display # "none") <=> (layoutClaims.role \in {"CIO", "Architect"})

C11_Witness ==
    /\ layout.built
    /\ layoutClaims.role = "Developer"
    /\ layout.enabled = {"dev"}
    /\ layout.kpi_display = "none"

(***************************************************************************)
(* C12: _filter_df returns exactly the rows that satisfy every predicate   *)
(* whose field is present and non-empty (date >= start, date <= end,       *)
(* membership in products/regions/systems/teams, owner contains the        *)
(* trimmed query as a case-insensitive substring, profit >= min_profit);   *)
(* an absent or empty field restricts nothing.                             *)
(***************************************************************************)
Satisfies(row, spec) ==
    /\ TruthyDate(spec.start_date) => row.date.day >= spec.start_date[1].day
    /\ TruthyDate(spec.end_date) => row.date.day <= spec.end_date[1].day
    /\ Truthy(spec.products) => isin(row.product, spec.products[1])
    /\ Truthy(spec.regions) => isin(row.region, spec.regions[1])
    /\ Truthy(spec.systems) => isin(row.system, spec.systems[1])
    /\ Truthy(spec.teams) => isin(row.team, spec.teams[1])
    /\ Truthy(spec.owner_query) =>
          SubstringContains(Lower(Strip(spec.owner_query[1])), Lower(row.owner))
    /\ spec.min_profit # None => row.profit >= spec.min_profit[1]

WellFormedSpec(spec) ==
    /\ spec.start_date # Some(BadDate)
    /\ spec.end_date # Some(BadDate)

C12_FilterExact ==
    filterOut.called /\ WellFormedSpec(filterSpec) =>
        /\ ~filterOut.raised
        /\ filterOut.rows = SelectSeq(filterDf, LAMBDA row : Satisfies(row, filterSpec))

(***************************************************************************)
(* C13: filtering is idempotent: _filter_df applied to the result of       *)
(* _filter_df(D, spec) with the same spec returns the same rows.           *)
(***************************************************************************)
C13_FilterIdempotent ==
    filterAgain.called => ~filterAgain.raised /\ filterAgain.rows = filterOut.rows

C13_Witness ==
    /\ filterAgain.called
    /\ Len(filterDf) = 2
    /\ Len(filterOut.rows) = 1
    /\ filterAgain.rows = filterOut.rows
    /\ Truthy(filterSpec.owner_query)

(***************************************************************************)
(* C18: fmt_money divides by 1000 and advances through the suffixes (none, *)
(* K, M, B, T) while the absolute value is at least 1000, then renders the *)
(* value at the unit reached rounded to the nearest integer with that      *)
(* suffix; 0 -> "0", 999 -> "999", 12300 -> "12K", 12900 -> "13K",         *)
(* 7000000 -> "7M", 1500000000 -> "1B", 2000000000000 -> "2T".             *)
(***************************************************************************)
AllUnits == Units \o <<"T">>

\* the number of divisions the claim's rule makes for m * 1000^e
RECURSIVE Divisions(_, _, _)
Divisions(m, e, i) ==
    IF i = Len(Units) \/ below_1000(m, e - i) THEN i ELSE Divisions(m, e, i + 1)

\* |v - m * 1000^s| <= 1/2
IsNearestInteger(v, m, s) ==
    IF m = 0 THEN v = 0
    ELSE IF s >= 0 THEN v = m * Pow1000(s)
    ELSE 2 * Abs(v * Pow1000(-s) - m) <= Pow1000(-s)

LiteralCases ==
    { <<Money(0, 0), 0, "">>, <<Money(999, 0), 999, "">>, <<Money(12300, 0), 12, "K">>,
      <<Money(12900, 0), 13, "K">>, <<Money(7, 2), 7, "M">>, <<Money(1500, 2), 1, "B">>,
      <<Money(2, 4), 2, "T">> }

C18_FmtMoney ==
    moneyText.done =>
        LET i == Divisions(moneyArg.m, moneyArg.e, 0)
        IN  /\ moneyText.unit = AllUnits[i + 1]
            /\ IsNearestInteger(moneyText.value, moneyArg.m, moneyArg.e - i)
            /\ \A c \in LiteralCases :
                  c[1] = moneyArg => moneyText.value = c[2] /\ moneyText.unit = c[3]

(***************************************************************************)
(* C14: update_viz never fails on a malformed filter specification: when   *)
(* the aggregation mode is not sum or mean, or a start/end date string     *)
(* cannot be parsed, it returns the empty-result state (placeholder KPIs,  *)
(* four empty figures, empty table) instead of raising.                    *)
(***************************************************************************)
Malformed(args) ==
    \/ args.agg \notin {"sum", "mean"}
    \/ args.start_date = Some(BadDate)
    \/ args.end_date = Some(BadDate)

C14_MalformedRejected ==
    vizOut.called /\ Malformed(vizArgs) => vizOut = EmptyState

(***************************************************************************)
(* C15: when the filtered dataset is empty (non-empty data store, filters  *)
(* that match no row) update_viz does not raise; the three money KPIs are  *)
(* zero, the red-system count is 0, each of the four figures has its       *)
(* series with empty x and y, and the table is the empty list.             *)
(***************************************************************************)
\* _filter_df handed an empty filtered dataset to the aggregation stage
FilteredEmpty ==
    /\ vizOut.called
    /\ data_json # <<>>
    /\ Filters(vizArgs).ok
    /\ apply_filter(data_json, Filters(vizArgs).flt) = Returned(<<>>)

SeriesNames(fig) == { sr.name : sr \in fig }

C15_EmptySafe ==
    FilteredEmpty =>
        /\ ~vizOut.raised
        /\ vizOut.kpi_rev = Some(MoneyText(0, ""))
        /\ vizOut.kpi_cost = Some(MoneyText(0, ""))
        /\ vizOut.kpi_profit = Some(MoneyText(0, ""))
        /\ vizOut.kpi_red = Some(0)
        /\ SeriesNames(vizOut.fig1) = {"Revenue", "Cost"}
        /\ SeriesNames(vizOut.fig2) = {"Profit"}
        /\ SeriesNames(vizOut.fig3) = {"Green", "Amber", "Red"}
        /\ SeriesNames(vizOut.fig4) = {"Rows"}
        /\ \A sr \in vizOut.fig1 \cup vizOut.fig2 \cup vizOut.fig3 \cup vizOut.fig4 :
              sr.points = {}
        /\ vizOut.table = <<>>

C15_Witness ==
    /\ FilteredEmpty
    /\ Len(data_json) = 2
    /\ vizArgs.products = Some(<<"Z">>)
    /\ vizArgs.agg = "mean"
    /\ vizOut.kpi_red = Some(0)

(***************************************************************************)
(* C16: the KPIs are the sums of revenue, cost and profit over the         *)
(* filtered rows, and the red-system count is the number of distinct       *)
(* systems with a filtered row of status Red dated exactly the reference   *)
(* date (the end of the date range, or today when no end date is set).     *)
(***************************************************************************)
Aggregated == vizOut.called /\ ~vizOut.raised /\ vizOut.kpi_red # None

RedSystemsOn(rows, day) ==
    { rows[i].system : i \in { j \in DOMAIN rows :
        rows[j].date.day = day /\ rows[j].status = "Red" } }

C16_Kpis ==
    Aggregated =>
        /\ vizOut.kpi_rev = Some(fmt_money(Money(Total(vizOut.table, "revenue"), 0)))
        /\ vizOut.kpi_cost = Some(fmt_money(Money(Total(vizOut.table, "cost"), 0)))
        /\ vizOut.kpi_profit = Some(fmt_money(Money(Total(vizOut.table, "profit"), 0)))
        /\ vizOut.kpi_red =
              Some(Cardinality(RedSystemsOn(vizOut.table,
                     IF TruthyDate(vizArgs.end_date) THEN vizArgs.end_date[1].day
                     ELSE vizToday)))

(***************************************************************************)
(* C17: in the system-health figure each of the three status series has    *)
(* one value for every system that occurs in the filtered rows; a system   *)
(* with no row of a status appears in that status's series with value 0.   *)
(***************************************************************************)
C17_HealthAligned ==
    Aggregated =>
        \A sr \in vizOut.fig3 :
            /\ { pt.x : pt \in sr.points } = { vizOut.table[i].system : i \in DOMAIN vizOut.table }
            /\ \A pt \in sr.points :
                  pt.total = Len(SelectSeq(vizOut.table,
                                 LAMBDA row : row.system = pt.x /\ row.status = sr.name))

(***************************************************************************)
(* C19: with no cache backend memoize returns the loader unchanged, so     *)
(* every call recomputes: nothing is ever stored, and every get_data call  *)
(* that returns has invoked the provider itself.                           *)
(***************************************************************************)
C19_NoCacheRecomputes ==
    cache_backend = "none" =>
        /\ cache = {}
        /\ \A r \in Requests :
              /\ calls[r].pc \notin {"lookup", "store"}
              /\ calls[r].pc = "done" => calls[r].loaded

C19_Witness ==
    /\ cache_backend = "none"
    /\ loads = 2
    /\ \E r1, r2 \in Requests :
          /\ r1 # r2
          /\ calls[r1].pc = "done" /\ calls[r2].pc = "done"
          /\ calls[r1].key = calls[r2].key
          /\ calls[r1].result.ver # calls[r2].result.ver

(***************************************************************************)
(* C20: when the provider load fails, get_data propagates the failure and  *)
(* stores nothing: the failed call returns no dataset and leaves the cache *)
(* contents unchanged, so the next get_data with the key loads again.      *)
(***************************************************************************)
C20_FailureNotCached ==
    [][\A r \in Requests :
          calls[r].pc = "load" /\ calls'[r].pc = "failed" =>
              /\ cache' = cache
              /\ calls'[r].result = NoData]_vars

C20_Witness ==
    /\ cache_backend # "none"
    /\ \E r1, r2 \in Requests :
          /\ calls[r1].pc = "failed"
          /\ ~EntryStoredFor(calls[r1].key, now)
          /\ calls[r2].pc = "load"
          /\ calls[r2].key = calls[r1].key
          /\ cache # {}

(***************************************************************************)
(* C21: there is no lock around the cache lookup and the load: a request   *)
(* that is about to look its key up is never held back by the calls other  *)
(* requests have in progress, so several requests can miss the cache for   *)
(* the same day key and each run a full provider load; every request whose *)
(* load succeeded returns a dataset.                                       *)
(***************************************************************************)
C21_NoLockAroundLoad ==
    \A r \in Requests :
        /\ calls[r].pc = "lookup" => ENABLED Lookup(r)
        /\ calls[r].pc = "done" => calls[r].result # NoData

\* two requests missed the cache for the same day key, each ran its own load
\* and both hold a dataset
C21_Witness ==
    /\ cache_backend # "none"
    /\ \E r1, r2 \in Requests :
          /\ r1 # r2
          /\ calls[r1].pc = "done" /\ calls[r2].pc = "done"
          /\ ~calls[r1].refresh /\ ~calls[r2].refresh
          /\ calls[r1].key = calls[r2].key
          /\ calls[r1].loaded /\ calls[r2].loaded
          /\ calls[r1].result.ver # calls[r2].result.ver


\* the step of call r in which the memoized wrapper answers from the cache
ServedFromCache(r) == calls[r].pc = "lookup" /\ calls'[r].pc = "done"

(***************************************************************************)
(* C26: an entry is served only until the timeout configured at            *)
(* construction has elapsed since it was stored: whenever a call is        *)
(* answered from the cache, the entry it is answered from was stored for   *)
(* the call's key less than timeout_seconds ago (so the first call with    *)
(* that key after the timeout loads again and no expired snapshot is       *)
(* returned).  With timeout_seconds = 0 no time at all may pass.           *)
(***************************************************************************)
C26_ExpiresAfterTimeout ==
    [][\A r \in Requests :
          ServedFromCache(r) =>
              \E e \in cache :
                  /\ e.key = calls[r].key
                  /\ e.ver = calls'[r].result.ver
                  /\ timeout_seconds > 0
                  /\ now < e.expires
                  /\ e.expires <= now + timeout_seconds]_vars

(***************************************************************************)
(* C27: no cross-key invalidation.  A step of a call made under a forced   *)
(* key leaves every entry stored under another key as it was, and a call   *)
(* with the day key that finds the day-key entry unexpired returns that    *)
(* entry's snapshot without invoking the provider, also after a manual     *)
(* refresh has loaded a newer one.                                         *)
(***************************************************************************)
C27_NoCrossKeyInvalidation ==
    [][\A r \in Requests :
          /\ (calls[r].refresh /\ calls'[r] # calls[r]) =>
                { e \in cache' : e.key # calls[r].key } =
                { e \in cache : e.key # calls[r].key }
          /\ (calls[r].pc = "lookup" /\ calls'[r] # calls[r] /\ ~calls[r].refresh
                /\ EntryStoredFor(calls[r].key, now)) =>
                /\ ServedFromCache(r)
                /\ loads' = loads
                /\ \E e \in cache : /\ e.key = calls[r].key
                                    /\ e.ver = calls'[r].result.ver]_vars

\* A manual refresh has loaded and stored a newer snapshot, and a later call
\* with the day key was served the older one that is still in the cache.
C27_Witness ==
    \E r1, r2 \in Requests :
        /\ calls[r1].pc = "done" /\ calls[r1].refresh /\ calls[r1].loaded
        /\ calls[r2].pc = "done" /\ ~calls[r2].refresh /\ ~calls[r2].loaded
        /\ calls[r2].key = <<now \div DayLength>>
        /\ calls[r2].result.ver < calls[r1].result.ver
        /\ \E e \in cache : e.key = calls[r2].key /\ e.ver = calls[r2].result.ver
        /\ \E e \in cache : e.key = calls[r1].key /\ e.ver = calls[r1].result.ver

\* the calendar date at time t
CalendarDay(t) == t \div DayLength

(***************************************************************************)
(* C28: get_data uses the forced key when one is supplied and otherwise    *)
(* the key of the current calendar date, and a call is answered from the   *)
(* cache only by an entry stored under its own key: the first call with    *)
(* no forced key after the date has changed invokes the provider, even     *)
(* while the previous day's entry has not expired.                         *)
(***************************************************************************)
C28_DayKeyRollover ==
    [][\A r \in Requests :
          /\ (calls[r].pc = "idle" /\ calls'[r].pc # "idle") =>
                calls'[r].key = IF calls'[r].refresh
                                THEN <<CalendarDay(now), now>>
                                ELSE <<CalendarDay(now)>>
          /\ ServedFromCache(r) =>
                \E e \in cache : /\ e.key = calls[r].key
                                 /\ e.ver = calls'[r].result.ver
          /\ (calls[r].pc = "lookup" /\ ~EntryStoredFor(calls[r].key, now)) =>
                calls'[r].pc \in {"lookup", "load"}]_vars

\* A call with no forced key has loaded under today's key while the entry
\* stored under yesterday's key is still unexpired.
C28_Witness ==
    /\ cache_backend # "none"
    /\ \E r \in Requests :
          /\ calls[r].pc \in {"store", "done"}
          /\ ~calls[r].refresh /\ calls[r].loaded
          /\ calls[r].key = <<CalendarDay(now)>>
          /\ \E e \in cache : /\ e.key = <<CalendarDay(now) - 1>>
                              /\ Unexpired(e, now)

(***************************************************************************)
(* C29: with authentication enabled, the rows bootstrap_data returns       *)
(* depend on the verified token claims alone: when the token verified by   *)
(* the guard is a Developer's with team t, every returned row has team t,  *)
(* whatever claims-store state the client sent with the callback.          *)
(***************************************************************************)
C29_RowsFollowVerifiedClaims ==
    ( /\ ~settings.disable_auth
      /\ response.view = "bootstrap_data"
      /\ g.claims # None
      /\ g.claims[1].role = "Developer"
      /\ g.claims[1].team # None )
    => \A i \in 1..Len(response.rows) : response.rows[i].team = g.claims[1].team[1]

(***************************************************************************)
(* C30: for every amount of absolute value below 10^15, the number         *)
(* fmt_money renders before its suffix has, after rounding, an absolute    *)
(* value below 1000 (never "1,000K").                                      *)
(***************************************************************************)
Below10To15(x) ==
    IF x.e >= 5 THEN x.m = 0
    ELSE IF x.e <= 2 THEN TRUE   \* every mantissa is below 10^9
    ELSE Abs(x.m) < Pow1000(5 - x.e)

NothingConfigured ==
    /\ repo.state = "built"
    /\ \/ repo.provider = "RestProvider" /\ repo.settings[1].api_base_url = <<>>
       \/ repo.provider = "SqlProvider" /\ repo.settings[1].db_url = <<>>

(***************************************************************************)
(* C23: RestProvider.load with an empty base URL and SqlProvider.load with *)
(* an empty connection string return the synthetic provider's dataset, a   *)
(* non-empty one of max_rows rows, and issue no remote fetch or query.     *)
(***************************************************************************)
C23_FallbackToSynthetic ==
    NothingConfigured /\ provLoad.pc # "idle" =>
        /\ provLoad.pc = "returned"
        /\ provLoad.synthetic
        /\ provLoad.rows = repo.settings[1].max_rows
        /\ provLoad.rows > 0
        /\ io = <<>>

C23_Witness ==
    /\ NothingConfigured
    /\ repo.provider = "RestProvider"
    /\ provLoad.pc = "returned"
    /\ provLoad.rows = MaxCap

(***************************************************************************)
(* C24: every remote operation a provider issues (the HTTP fetch, the SQL  *)
(* query) is issued with a bounded timeout, so that no load waits for      *)
(* ever.                                                                   *)
(***************************************************************************)
C24_IoHasTimeout ==
    \A i \in 1..Len(io) : io[i].timeout # None

\* the process was started with the title set, under either spelling
ProcessSetsTitle == \E i \in 1..Len(procEnv) : str_lower(procEnv[i][1]) = "app_title"

\* the claim's order of the files, lowest precedence first
Precedence ==
    << <<".env">>, <<".env", "dev">>, <<".env", app_env(procEnv)>>,
       <<".env", "local">>, <<".env", app_env(procEnv), "local">> >>

Defining == { i \in 1..Len(Precedence) : files[Precedence[i]] # None }

(***************************************************************************)
(* C25: Settings reads the value of the real process environment when the  *)
(* key is set there, and otherwise the value of the highest-precedence     *)
(* file that defines it, in the order .env < .env.dev < .env.{APP_ENV} <   *)
(* .env.local < .env.{APP_ENV}.local.                                      *)
(***************************************************************************)
C25_EnvPrecedence ==
    envSettings.built =>
        IF ProcessSetsTitle
        THEN envSettings.app_title = <<"process">>
        ELSE Defining # {} =>
                \E i \in Defining :
                    /\ \A j \in Defining : j <= i
                    /\ envSettings.app_title = <<"file">> \o Precedence[i]
====
